---- MODULE Spec2Model ----
(***************************************************************************)
(* remote-ref: ObjectStore<T> / ObjectRef<T> (src/src/lib.rs).             *)
(*                                                                         *)
(* An ObjectStore owns a Slab of Object { rc: Weak<marker>, data: T }.     *)
(* insert mints an ObjectRef { index, rc: Arc<marker> }.  ObjectRefs are   *)
(* Send + Sync: they are cloned and dropped on any thread, which touches   *)
(* only the marker's atomic strong count.  The store itself is used by one *)
(* owner thread (get, get_mut, insert, remove, clean).                     *)
(*                                                                         *)
(* The owner thread has a program counter: remove and clean are split at   *)
(* the points where they read or write a marker's atomic counter, so that  *)
(* clone/drop on other threads interleave with them exactly where the      *)
(* hardware allows.  pc = "done" is the instant a call returns (ret holds  *)
(* its result), not a span of time: a clone or drop that comes after it is *)
(* taken once the owner is "idle" again.  A call that panics returns       *)
(* "panic" and the behaviour goes on, as under catch_unwind: a panic of    *)
(* get, get_mut or remove comes before any change to the store.  Slab      *)
(* indices are 0-based as in the source; entries are kept in a sequence,   *)
(* so key k lives at entries[k + 1].                                       *)
(***************************************************************************)
EXTENDS Naturals, Sequences, FiniteSets, Bags, TLC

VARIABLES
    slab,     \* slab[st]: the Slab<Object<T>> of store st
    arc,      \* arc[a]: the marker allocation (ArcInner) at address a
    refs,     \* bag of the un-dropped ObjectRefs, wherever they are held
    pc,       \* where the owner thread is
    cur,      \* the owner thread's locals inside remove / clean
    ret,      \* what the owner's last call returned
    nextId    \* number of the next insertion (identity of a slot instance)

vars == <<slab, arc, refs, pc, cur, ret, nextId>>

----------------------------------------------------------------------------
(* Bounds *)

MaxInserts == 2    \* insert calls in one behaviour
MaxRefs == 2       \* ObjectRefs alive at once
NumAddrs == 2      \* heap addresses the allocator hands out for markers

Stores == {"A", "B"}
Values == {"a", "b"}
Addrs == 1..NumAddrs
Ids == 1..MaxInserts

----------------------------------------------------------------------------
(* Object<T> and the slab crate's Entry<Object<T>>.  Beside the struct's  *)
(* rc and data an object carries its history: id, the insertion that made  *)
(* it; orig, the value that insertion was given, until get_mut hands out a *)
(* &mut to the value ("mutated" from then on).                             *)

Occupied(rc, data, id) ==
    [occ |-> TRUE, rc |-> rc, data |-> data, id |-> id, orig |-> data]

Vacant(next) == [occ |-> FALSE, next |-> next]

EmptySlab == [entries |-> <<>>, next |-> 0]

\* slab.contains(key)
Contains(s, key) == key < Len(s.entries) /\ s.entries[key + 1].occ

\* slab[key] of an occupied key
At(s, key) == s.entries[key + 1]

\* SlabInsert that leaves the head of the free list where it was
SlabInsertStaleNext(s, obj) ==
    LET key == s.next IN
    IF key = Len(s.entries)
    THEN [entries |-> Append(s.entries, obj), next |-> s.next]
    ELSE [entries |-> [s.entries EXCEPT ![key + 1] = obj], next |-> s.next]

\* Slab::insert: the head of the free list, or a new entry at the end
SlabInsert(s, obj) ==
    LET key == s.next IN
    IF key = Len(s.entries)
    THEN [entries |-> Append(s.entries, obj), next |-> key + 1]
    ELSE [entries |-> [s.entries EXCEPT ![key + 1] = obj],
          next |-> s.entries[key + 1].next]

\* removal as Vec::remove does it: the later entries move down by one
SlabRemoveCompacting(s, key) ==
    [entries |-> SubSeq(s.entries, 1, key) \o SubSeq(s.entries, key + 2, Len(s.entries)),
     next |-> Len(s.entries) - 1]

\* Slab::remove: the entry becomes the head of the free list; no other
\* entry moves
SlabRemove(s, key) ==
    [entries |-> [s.entries EXCEPT ![key + 1] = Vacant(s.next)],
     next |-> key]

----------------------------------------------------------------------------
(* Arc / Weak over the marker allocation.  strong counts the Arcs, weak    *)
(* the Weaks; uses is history: how many markers the address has held.      *)

NoArc == [strong |-> 0, weak |-> 0, uses |-> 0]

\* an address the allocator may return: nothing refers to it any more
Free(a) == arc[a].strong = 0 /\ arc[a].weak = 0

\* a marker that the object does not hold a Weak of
NewMarkerNoWitness(m, a) ==
    [m EXCEPT ![a] = [strong |-> 1, weak |-> 0, uses |-> @.uses + 1]]

\* the marker of insert at address a, when insert returns: Arc::new, one
\* clone for the handle, a Weak for the object, the local Arc dropped
NewMarker(m, a) ==
    [m EXCEPT ![a] = [strong |-> 1, weak |-> 1, uses |-> @.uses + 1]]

\* a clone that does not count
ArcCloneUncounted(m, a) == m

\* Arc::clone
ArcClone(m, a) == [m EXCEPT ![a].strong = @ + 1]

\* drop of an Arc
ArcDrop(m, a) == [m EXCEPT ![a].strong = @ - 1]

\* drop of a Weak
WeakDrop(m, a) == [m EXCEPT ![a].weak = @ - 1]

\* Weak::strong_count
StrongCount(a) == arc[a].strong

----------------------------------------------------------------------------
(* ObjectRef<T>; st and id are not fields of the struct: they name the     *)
(* store and the insertion that minted the handle                          *)

ObjectRef(st, index, rc, id) == [st |-> st, index |-> index, rc |-> rc, id |-> id]

Handles == BagToSet(refs)

NoCur == [k |-> "none"]
NoRet == [op |-> "none"]

\* un-dropped handles of insertion id: those in the bag, and the one the
\* owner holds inside remove
Held(id) == IF pc = "remove_drop" /\ cur.ref.id = id THEN 1 ELSE 0

RefCount(id) ==
    LET hs == {h \in Handles : h.id = id}
        RECURSIVE Sum(_)
        Sum(S) == IF S = {} THEN 0
                  ELSE LET h == CHOOSE x \in S : TRUE
                       IN CopiesIn(h, refs) + Sum(S \ {h})
    IN Sum(hs) + Held(id)

TotalRefs == BagCardinality(refs)

----------------------------------------------------------------------------

Init ==
    /\ slab = [st \in Stores |-> EmptySlab]
    /\ arc = [a \in Addrs |-> NoArc]
    /\ refs = EmptyBag
    /\ pc = "idle"
    /\ cur = NoCur
    /\ ret = NoRet
    /\ nextId = 1

\* ObjectStore::insert
Insert(st, data) ==
    /\ pc = "idle"
    /\ nextId <= MaxInserts
    /\ TotalRefs < MaxRefs
    /\ \E a \in Addrs :
        /\ Free(a)
        /\ LET index == slab[st].next
               r == ObjectRef(st, index, a, nextId)
           IN /\ slab' = [slab EXCEPT ![st] = SlabInsert(@, Occupied(a, data, nextId))]
              /\ arc' = NewMarker(arc, a)
              /\ refs' = refs (+) SetToBag({r})
              /\ ret' = [op |-> "insert", st |-> st, ref |-> r, val |-> data]
    /\ nextId' = nextId + 1
    /\ pc' = "done"
    /\ UNCHANGED cur

\* &self.slab[obj_ref.index].data: indexing a key that holds no object
\* panics; nothing but the index of the handle is looked at
GetValue(st, h) ==
    IF Contains(slab[st], h.index) THEN At(slab[st], h.index).data ELSE "panic"

\* ObjectStore::get.  The handle is only borrowed.
Get(st, h) ==
    /\ pc = "idle"
    /\ ret' = [op |-> "get", st |-> st, ref |-> h, val |-> GetValue(st, h)]
    /\ pc' = "done"
    /\ UNCHANGED <<slab, arc, refs, cur, nextId>>

\* WriteData through a reference to the first entry, whatever the index
WriteDataFirst(s, index, w) == [s EXCEPT !.entries[1].data = w]

\* the slab after the caller stored w through the &mut T of key index
WriteData(s, index, w) == [s EXCEPT !.entries[index + 1].data = w]

\* history: get_mut has handed out the value at key index
MarkMutated(s, index) == [s EXCEPT !.entries[index + 1].orig = "mutated"]

\* ObjectStore::get_mut, and the caller's use of the &mut T it returns:
\* the caller may store any value w through it
GetMut(st, h, w) ==
    /\ pc = "idle"
    /\ ret' = [op |-> "get_mut", st |-> st, ref |-> h, val |-> GetValue(st, h)]
    /\ IF Contains(slab[st], h.index)
       THEN slab' = [slab EXCEPT ![st] = WriteData(MarkMutated(@, h.index), h.index, w)]
       ELSE UNCHANGED slab
    /\ pc' = "done"
    /\ UNCHANGED <<arc, refs, cur, nextId>>

\* a clone or drop that runs while the owner is inside remove or clean is
\* on another thread; cur.conc records that one happened
Concurrently == IF pc = "idle" THEN cur ELSE [cur EXCEPT !.conc = TRUE]

\* ObjectRef::clone (derived), on any thread
CloneRef(h) ==
    /\ pc # "done"
    /\ TotalRefs < MaxRefs
    /\ refs' = refs (+) SetToBag({h})
    /\ arc' = ArcClone(arc, h.rc)
    /\ cur' = Concurrently
    /\ UNCHANGED <<slab, pc, ret, nextId>>

\* a drop that frees the slot itself when it was the last handle
DropRefEager(h) ==
    /\ pc # "done"
    /\ refs' = refs (-) SetToBag({h})
    /\ IF arc[h.rc].strong = 1 /\ Contains(slab[h.st], h.index)
       THEN /\ slab' = [slab EXCEPT ![h.st] = SlabRemove(@, h.index)]
            /\ arc' = WeakDrop(ArcDrop(arc, h.rc), h.rc)
       ELSE /\ arc' = ArcDrop(arc, h.rc)
            /\ UNCHANGED slab
    /\ cur' = Concurrently
    /\ UNCHANGED <<pc, ret, nextId>>

\* drop of an ObjectRef, on any thread
DropRef(h) ==
    /\ pc # "done"
    /\ refs' = refs (-) SetToBag({h})
    /\ arc' = ArcDrop(arc, h.rc)
    /\ cur' = Concurrently
    /\ UNCHANGED <<slab, pc, ret, nextId>>

\* Keep with a comparison that is always true
KeepAlways(obj) == StrongCount(obj.rc) >= 0

\* Keep with the comparison off by one
KeepOffByOne(obj) == StrongCount(obj.rc) > 1

\* the closure of clean's retain: keep the object while a handle is alive
Keep(obj) == StrongCount(obj.rc) > 0

\* ids of the objects of store st
OccupiedIds(st) ==
    {slab[st].entries[k].id : k \in {j \in 1..Len(slab[st].entries) : slab[st].entries[j].occ}}

\* ids of the objects of store st that no handle keeps alive
ZeroIds(st) ==
    {slab[st].entries[k].id :
        k \in {j \in 1..Len(slab[st].entries) :
                  slab[st].entries[j].occ /\ StrongCount(slab[st].entries[j].rc) = 0}}

\* ObjectStore::clean is called: Slab::retain starts at key 0.  zero0 and
\* occ0 remember what the call found.
CleanCall(st) ==
    /\ pc = "idle"
    /\ pc' = "clean"
    /\ cur' = [k |-> "clean", st |-> st, i |-> 0, conc |-> FALSE,
               zero0 |-> ZeroIds(st), occ0 |-> OccupiedIds(st)]
    /\ UNCHANGED <<slab, arc, refs, ret, nextId>>

\* a sweep that steps over the key after the one it has just removed
CleanStepSkip ==
    /\ pc = "clean"
    /\ cur.i < Len(slab[cur.st].entries)
    /\ LET s == slab[cur.st]
           e == At(s, cur.i)
       IN IF e.occ /\ ~Keep(e)
          THEN /\ slab' = [slab EXCEPT ![cur.st] = SlabRemove(s, cur.i)]
               /\ arc' = WeakDrop(arc, e.rc)
               /\ cur' = [cur EXCEPT !.i = IF @ + 2 <= Len(s.entries) THEN @ + 2 ELSE @ + 1]
          ELSE /\ UNCHANGED <<slab, arc>>
               /\ cur' = [cur EXCEPT !.i = @ + 1]
    /\ UNCHANGED <<refs, pc, ret, nextId>>

\* one turn of Slab::retain's loop: key cur.i is removed when it holds an
\* object the closure does not keep; the removed Object's Weak is dropped
CleanStep ==
    /\ pc = "clean"
    /\ cur.i < Len(slab[cur.st].entries)
    /\ LET s == slab[cur.st]
           e == At(s, cur.i)
       IN IF e.occ /\ ~Keep(e)
          THEN /\ slab' = [slab EXCEPT ![cur.st] = SlabRemove(s, cur.i)]
               /\ arc' = WeakDrop(arc, e.rc)
          ELSE UNCHANGED <<slab, arc>>
    /\ cur' = [cur EXCEPT !.i = @ + 1]
    /\ UNCHANGED <<refs, pc, ret, nextId>>

\* Slab::retain has visited every key: clean returns
CleanReturn ==
    /\ pc = "clean"
    /\ cur.i = Len(slab[cur.st].entries)
    /\ pc' = "done"
    /\ ret' = [op |-> "clean", st |-> cur.st]
    /\ UNCHANGED <<slab, arc, refs, cur, nextId>>

\* SameMarker without the comparison of the two pointers
SameMarkerUnchecked(s, h) == Contains(s, h.index)

\* the assert_eq of remove: the handle's marker is the one the object at
\* the handle's index witnesses (indexing an empty key panics before it)
SameMarker(s, h) == Contains(s, h.index) /\ h.rc = At(s, h.index).rc

\* try_unwrap that succeeds whatever the strong count
TryUnwrapAny(a) == arc[a].strong >= 1

\* Arc::try_unwrap succeeds: compare_exchange(strong, 1, 0)
TryUnwrap(a) == arc[a].strong = 1

\* ObjectStore::remove up to the outcome of Arc::try_unwrap.  The handle is
\* moved into the call.  A failed assertion unwinds and drops it.  When
\* try_unwrap succeeds no other handle exists, the object is removed and
\* its Weak dropped.  When it fails the Err(Arc) is still to be dropped.
\* cur remembers what the call found: obj, the object at the handle's
\* index, and others, the number of other handles of the same insertion.
RemoveCall(st, h) ==
    /\ pc = "idle"
    /\ refs' = refs (-) SetToBag({h})
    /\ IF ~SameMarker(slab[st], h)
       THEN /\ arc' = ArcDrop(arc, h.rc)
            /\ ret' = [op |-> "remove", st |-> st, ref |-> h, val |-> "panic"]
            /\ pc' = "done"
            /\ cur' = [k |-> "remove", st |-> st, ref |-> h, conc |-> FALSE,
                       others |-> RefCount(h.id) - 1]
            /\ UNCHANGED slab
       ELSE /\ cur' = [k |-> "remove", st |-> st, ref |-> h, conc |-> FALSE,
                       obj |-> At(slab[st], h.index),
                       others |-> RefCount(h.id) - 1]
            /\ IF TryUnwrap(h.rc)
               THEN /\ arc' = WeakDrop(ArcDrop(arc, h.rc), h.rc)
                    /\ slab' = [slab EXCEPT ![st] = SlabRemove(@, h.index)]
                    /\ ret' = [op |-> "remove", st |-> st, ref |-> h,
                               val |-> At(slab[st], h.index).data]
                    /\ pc' = "done"
               ELSE /\ pc' = "remove_drop"
                    /\ UNCHANGED <<slab, arc, ret>>
    /\ UNCHANGED nextId

\* remove's else branch: is_ok() drops the Err(Arc) that try_unwrap gave
\* back, and None is returned
RemoveDropErr ==
    /\ pc = "remove_drop"
    /\ arc' = ArcDrop(arc, cur.ref.rc)
    /\ ret' = [op |-> "remove", st |-> cur.st, ref |-> cur.ref, val |-> "None"]
    /\ pc' = "done"
    /\ UNCHANGED <<slab, refs, cur, nextId>>

\* the owner's call has returned; the caller goes on
Return ==
    /\ pc = "done"
    /\ pc' = "idle"
    /\ ret' = NoRet
    /\ cur' = NoCur
    /\ UNCHANGED <<slab, arc, refs, nextId>>

Next ==
    \/ \E st \in Stores, v \in Values : Insert(st, v)
    \/ \E st \in Stores, h \in Handles : Get(st, h)
    \/ \E st \in Stores, h \in Handles, w \in Values : GetMut(st, h, w)
    \/ \E h \in Handles : CloneRef(h)
    \/ \E h \in Handles : DropRef(h)
    \/ \E st \in Stores : CleanCall(st)
    \/ CleanStep
    \/ CleanReturn
    \/ \E st \in Stores, h \in Handles : RemoveCall(st, h)
    \/ RemoveDropErr
    \/ Return

Spec == Init /\ [][Next]_vars

----------------------------------------------------------------------------
(* What the claims speak of *)

\* the call that has just returned was given a handle minted by another store
ForeignCall ==
    /\ pc = "done"
    /\ ret.op \in {"get", "get_mut", "remove"}
    /\ ret.ref.st # ret.st

\* the objects the clean call that has just returned took out of its store
CleanRemoved == cur.occ0 \ OccupiedIds(cur.st)

\* the keys of store st
KeysOf(st) == 0..(Len(slab[st].entries) - 1)

----------------------------------------------------------------------------
(* C1 *)

\* C1 as stated: every get, get_mut and remove of a store that is given a
\* handle of another store panics.
C1_ForeignHandleAlwaysPanics == ForeignCall => ret.val = "panic"

\* C1, amended: remove of a store given a handle of another store always
\* panics; get and get_mut given such a handle panic exactly when the store
\* has no object at the handle's index, and otherwise hand out the value the
\* store keeps at that index.
C1_ForeignHandle ==
    ForeignCall =>
        /\ ret.op = "remove" => ret.val = "panic"
        /\ ret.op \in {"get", "get_mut"} =>
              (ret.val = "panic" <=> ~Contains(slab[ret.st], ret.ref.index))
        /\ (ret.op = "get" /\ Contains(slab[ret.st], ret.ref.index)) =>
              ret.val = At(slab[ret.st], ret.ref.index).data

\* a get with a foreign handle has returned the other store's value, which
\* is not the value of the handle's own object
C1_Witness ==
    /\ ForeignCall
    /\ ret.op = "get"
    /\ ret.val \in Values
    /\ ret.val # GetValue(ret.ref.st, ret.ref)

----------------------------------------------------------------------------
(* C2 *)

\* C2: when remove returns, under every interleaving with clones and drops
\* on other threads: if no handle of the slot is left then the slot was
\* removed and its value returned; and if None is returned then the slot is
\* still there and another handle of it still exists.
C2_RemoveUnderRace ==
    (pc = "done" /\ ret.op = "remove" /\ ret.val # "panic") =>
        /\ RefCount(ret.ref.id) = 0 =>
              (ret.val \in Values /\ ~Contains(slab[ret.st], ret.ref.index))
        /\ ret.val = "None" =>
              (Contains(slab[ret.st], ret.ref.index) /\ RefCount(ret.ref.id) >= 1)

----------------------------------------------------------------------------
(* C3 *)

\* C3: when clean returns, every object that no handle kept alive when the
\* call began is gone, no object that is gone has an un-dropped handle, and
\* nothing was added; when no handle was dropped on another thread while the
\* sweep ran, the objects gone are exactly those with no handle at the call.
C3_CleanRemovesExactlyUnheld ==
    (pc = "done" /\ ret.op = "clean") =>
        /\ cur.zero0 \subseteq CleanRemoved
        /\ \A id \in CleanRemoved : RefCount(id) = 0
        /\ OccupiedIds(cur.st) \subseteq cur.occ0
        /\ ~cur.conc => CleanRemoved = cur.zero0

\* a clean has removed one object and kept another that a handle holds
C3_Witness ==
    /\ pc = "done" /\ ret.op = "clean"
    /\ CleanRemoved # {}
    /\ \E id \in OccupiedIds(cur.st) : RefCount(id) >= 1

----------------------------------------------------------------------------
(* C4 *)

\* in one step, every object of every store either leaves its store or
\* stays at its key with its marker, and with its value unless the step is
\* a get_mut at that key of that store
C4_Step ==
    \A st \in Stores : \A k \in KeysOf(st) :
        Contains(slab[st], k) =>
            \/ At(slab[st], k).id \notin OccupiedIds(st)'
            \/ /\ Contains(slab'[st], k)
               /\ At(slab'[st], k).id = At(slab[st], k).id
               /\ At(slab'[st], k).rc = At(slab[st], k).rc
               /\ \/ At(slab'[st], k).data = At(slab[st], k).data
                  \/ /\ pc = "idle" /\ pc' = "done" /\ ret'.op = "get_mut"
                     /\ ret'.st = st /\ ret'.ref.index = k

\* get of the issuing store, given a handle, returns the value of the
\* object of the handle's own insertion, found at the handle's index
C4_Get ==
    (pc = "done" /\ ret.op = "get" /\ ret.ref.st = ret.st) =>
        /\ Contains(slab[ret.st], ret.ref.index)
        /\ At(slab[ret.st], ret.ref.index).id = ret.ref.id
        /\ ret.val = At(slab[ret.st], ret.ref.index).data

\* C4: index stability: whatever clean or remove frees, every object that
\* stays keeps its key and is changed by nothing but a get_mut on it, and
\* get with the original handle returns its value.
C4_IndexStable == []C4_Get /\ [][C4_Step]_vars

\* a clean has freed a key below the key of an object that stays and that
\* a handle still names
C4_Witness ==
    /\ pc = "done" /\ ret.op = "clean"
    /\ \E k1, k2 \in KeysOf(cur.st) :
        /\ k1 < k2
        /\ ~Contains(slab[cur.st], k1)
        /\ Contains(slab[cur.st], k2)
        /\ CleanRemoved # {}
        /\ \E h \in Handles :
              h.st = cur.st /\ h.index = k2 /\ h.id = At(slab[cur.st], k2).id

----------------------------------------------------------------------------
(* C5 *)

\* C5: when remove of the issuing store returns and no clone or drop ran on
\* another thread during the call: with no other handle of the slot at the
\* call, the slot's value is returned and the slot is free; with others >= 1
\* other handles, None is returned, the object is still at its key and
\* unchanged, its strong count is others, and every handle left reads the
\* same value.
C5_RemoveSequential ==
    (pc = "done" /\ ret.op = "remove" /\ ret.val # "panic" /\ ~cur.conc) =>
        /\ cur.others = 0 =>
              /\ ret.val = cur.obj.data
              /\ ~Contains(slab[ret.st], ret.ref.index)
        /\ cur.others >= 1 =>
              /\ ret.val = "None"
              /\ Contains(slab[ret.st], ret.ref.index)
              /\ At(slab[ret.st], ret.ref.index) = cur.obj
              /\ StrongCount(cur.obj.rc) = cur.others
              /\ RefCount(ret.ref.id) = cur.others
              /\ \A h \in Handles :
                    h.id = ret.ref.id => GetValue(h.st, h) = cur.obj.data

\* remove has returned None while another clone was alive, with no
\* activity on other threads
C5_Witness ==
    /\ pc = "done" /\ ret.op = "remove" /\ ~cur.conc
    /\ ret.val = "None"
    /\ cur.others >= 1

----------------------------------------------------------------------------
(* C6 *)

\* C6: the strong count of the marker of every object equals the number of
\* un-dropped handles of that object's insertion (the handle moved into a
\* running remove included); it is 1 when insert returns.
C6_StrongCountIsHandleCount ==
    /\ \A st \in Stores : \A k \in KeysOf(st) :
          Contains(slab[st], k) =>
              StrongCount(At(slab[st], k).rc) = RefCount(At(slab[st], k).id)
    /\ (pc = "done" /\ ret.op = "insert") => StrongCount(ret.ref.rc) = 1

\* inside remove, after a clone of the handle was dropped on another
\* thread: the handle remove holds is the only one left
C6_Witness ==
    /\ pc = "remove_drop"
    /\ cur.conc
    /\ StrongCount(cur.ref.rc) = 1
    /\ TotalRefs = 0

----------------------------------------------------------------------------
(* C7 *)

\* a step of clean takes out of the store only objects without handles
C7_Step ==
    pc = "clean" =>
        \A id \in OccupiedIds(cur.st) \ OccupiedIds(cur.st)' : RefCount(id) = 0

\* the keys clean has visited, and all keys once it has returned, hold no
\* object that was without handles when the call began
C7_Swept ==
    /\ pc = "clean" =>
          \A k \in KeysOf(cur.st) :
              (k < cur.i /\ Contains(slab[cur.st], k)) =>
                  At(slab[cur.st], k).id \notin cur.zero0
    /\ (pc = "done" /\ ret.op = "clean") =>
          \A k \in KeysOf(cur.st) :
              Contains(slab[cur.st], k) => At(slab[cur.st], k).id \notin cur.zero0

\* C7: in every interleaving of drops on other threads with clean: clean
\* never removes an object while a handle of it is un-dropped, and a clean
\* that starts after the last handle was dropped removes the object.
C7_CleanUnderDrops == []C7_Swept /\ [][C7_Step]_vars

\* a clean has removed an object whose last handle was dropped on another
\* thread while the sweep was running
C7_Witness ==
    /\ pc = "done" /\ ret.op = "clean"
    /\ cur.conc
    /\ CleanRemoved \ cur.zero0 # {}

----------------------------------------------------------------------------
(* C8 *)

\* the un-dropped handles: those in the bag and the one inside remove
LiveHandles == Handles \cup (IF pc = "remove_drop" THEN {cur.ref} ELSE {})

\* C8: every un-dropped handle names a key of its issuing store that holds
\* the object of the handle's own insertion, witnessed by the handle's own
\* marker; and no two objects share a marker or an insertion.
C8_HandlesResolve ==
    /\ \A h \in LiveHandles :
          /\ SameMarker(slab[h.st], h)
          /\ At(slab[h.st], h.index).id = h.id
    /\ \A s1, s2 \in Stores : \A k1 \in KeysOf(s1), k2 \in KeysOf(s2) :
          (Contains(slab[s1], k1) /\ Contains(slab[s2], k2) /\ <<s1, k1>> # <<s2, k2>>) =>
              /\ At(slab[s1], k1).rc # At(slab[s2], k2).rc
              /\ At(slab[s1], k1).id # At(slab[s2], k2).id

\* key 0 of a store backs the second insertion, held by a handle, after the
\* first insertion lived at the same key (the other store never had one)
C8_Witness ==
    \E st \in Stores :
        /\ Len(slab[st].entries) = 1
        /\ Contains(slab[st], 0)
        /\ At(slab[st], 0).id = 2
        /\ \A s2 \in Stores \ {st} : Len(slab[s2].entries) = 0
        /\ \E h \in Handles : h.id = 2

----------------------------------------------------------------------------
(* C9 *)

\* the store and key where the object of insertion id is
PlaceOf(id) ==
    {p \in {<<st, k>> : st \in Stores, k \in 0..(MaxInserts - 1)} :
        Contains(slab[p[1]], p[2]) /\ At(slab[p[1]], p[2]).id = id}

\* the strong count of the object of insertion id
StrongOf(id) ==
    LET p == CHOOSE q \in PlaceOf(id) : TRUE
    IN StrongCount(At(slab[p[1]], p[2]).rc)

\* the state of the slot instance made by insertion id
Phase(id) ==
    IF id >= nextId THEN "Unborn"
    ELSE IF PlaceOf(id) = {} THEN "Freed"
    ELSE IF StrongOf(id) > 0 THEN "Live"
    ELSE "Reclaimable"

\* the transitions a slot instance may take in one step.  An object that
\* stays at its key: its strong count stays zero (Reclaimable), or moves by
\* at most one (Live(n) to Live(n-1), Live(n+1), or Reclaimable from
\* Live(1)).  An object that leaves its key is in no store any more (Freed),
\* and it was Reclaimable, or Live(1) and the step is a remove of its handle.
\* An object that appears at a key is the next insertion, Live(1): no
\* earlier instance, Freed or not, ever appears.
C9_Step ==
    /\ \A st \in Stores : \A k \in KeysOf(st) :
          Contains(slab[st], k) =>
              IF Contains(slab'[st], k) /\ At(slab'[st], k).id = At(slab[st], k).id
              THEN IF StrongCount(At(slab[st], k).rc) = 0
                   THEN arc'[At(slab'[st], k).rc].strong = 0
                   ELSE arc'[At(slab'[st], k).rc].strong \in
                            { StrongCount(At(slab[st], k).rc) - 1,
                              StrongCount(At(slab[st], k).rc),
                              StrongCount(At(slab[st], k).rc) + 1 }
              ELSE /\ \A s2 \in Stores : At(slab[st], k).id \notin OccupiedIds(s2)'
                   /\ \/ StrongCount(At(slab[st], k).rc) = 0
                      \/ /\ StrongCount(At(slab[st], k).rc) = 1
                         /\ ret'.op = "remove"
                         /\ ret'.ref.id = At(slab[st], k).id
    /\ \A st \in Stores : \A k \in KeysOf(st)' :
          ( /\ Contains(slab'[st], k)
            /\ ~(Contains(slab[st], k) /\ At(slab[st], k).id = At(slab'[st], k).id) ) =>
              /\ At(slab'[st], k).id = nextId
              /\ nextId' = nextId + 1
              /\ arc'[At(slab'[st], k).rc].strong = 1

\* C9: a slot instance is created Live(1), moves between Live(n) and
\* Live(n+1) or Live(n-1) one handle at a time, becomes Reclaimable from
\* Live(1), and Freed from Reclaimable or by remove of its last handle; its
\* strong count never rises from zero and Freed is final.
C9_SlotLifecycle == [][C9_Step]_vars

\* the first slot instance is Freed and the second is Reclaimable at the
\* key the first one had
C9_Witness ==
    /\ Phase(1) = "Freed"
    /\ Phase(2) = "Reclaimable"
    /\ \E st \in Stores :
          /\ PlaceOf(2) = {<<st, 0>>}
          /\ \A s2 \in Stores \ {st} : Len(slab[s2].entries) = 0

----------------------------------------------------------------------------
(* C10 *)

----------------------------------------------------------------------------
(* C11 *)

\* the step is the call of remove; cur' holds its store and its handle
RemoveCalled == pc = "idle" /\ cur'.k = "remove"

\* the marker of the handle is not the one witnessed at the handle's index
\* of store st, or that index holds no object
MarkerDiffers(st, h) ==
    ~(Contains(slab[st], h.index) /\ h.rc = At(slab[st], h.index).rc)

\* the call of remove panics exactly when the markers differ, and then the
\* slab of every store is as it was and no marker but the handle's own
\* has changed, the one witnessed at the handle's index included
C11_Step ==
    RemoveCalled =>
        /\ MarkerDiffers(cur'.st, cur'.ref) <=> (pc' = "done" /\ ret'.val = "panic")
        /\ MarkerDiffers(cur'.st, cur'.ref) =>
              /\ slab' = slab
              /\ \A a \in Addrs \ {cur'.ref.rc} : arc'[a] = arc[a]
              /\ Contains(slab[cur'.st], cur'.ref.index) =>
                    arc'[At(slab[cur'.st], cur'.ref.index).rc].strong =
                        arc[At(slab[cur'.st], cur'.ref.index).rc].strong

\* C11: remove compares the handle's marker with the witness at the handle's
\* index before anything else; when they differ, or the index holds no
\* object, it panics and the store is unchanged: no slot removed, no value
\* changed, and the strong count of the slot at that index unchanged.
C11_RemoveChecksFirst == [][C11_Step]_vars

\* remove has panicked on a handle whose index holds, in the store called,
\* an object that a handle of that store keeps alive
C11_Witness ==
    /\ pc = "done" /\ ret.op = "remove" /\ ret.val = "panic"
    /\ Contains(slab[ret.st], ret.ref.index)
    /\ StrongCount(At(slab[ret.st], ret.ref.index).rc) >= 1

----------------------------------------------------------------------------
(* C12 *)

\* the handles of which the step made or dropped a copy outside a call of
\* the owner: the step is a clone or a drop
ClonedOrDropped ==
    IF pc' = pc /\ refs' # refs
    THEN {h \in Handles \cup BagToSet(refs') : CopiesIn(h, refs) # CopiesIn(h, refs')}
    ELSE {}

\* a clone or drop leaves every slab as it is, and changes nothing of any
\* marker but the strong count of the handle's own, by the number of copies
\* made or dropped
C12_Frame ==
    \A h \in ClonedOrDropped :
        /\ ClonedOrDropped = {h}
        /\ slab' = slab
        /\ \A a \in Addrs \ {h.rc} : arc'[a] = arc[a]
        /\ arc'[h.rc].weak = arc[h.rc].weak
        /\ arc'[h.rc].strong + CopiesIn(h, refs) = arc[h.rc].strong + CopiesIn(h, refs')

\* an object no handle keeps alive leaves its key only in a step of clean
\* on its store
C12_Stays ==
    \A st \in Stores : \A k \in KeysOf(st) :
        ( /\ Contains(slab[st], k)
          /\ StrongCount(At(slab[st], k).rc) = 0
          /\ ~Contains(slab'[st], k) ) =>
            (pc = "clean" /\ cur.st = st)

\* C12: a clone or a drop of a handle, on any thread, changes only the
\* strong count of the handle's slot: the occupied slots, their indices and
\* their values stay, and a slot whose count reaches zero stays in the
\* arena until the owner's clean.
C12_HandleOpsTouchCountOnly == [][C12_Frame /\ C12_Stays]_vars

\* during a sweep, the last handle of an object the sweep has already passed
\* was dropped on another thread: the object is still in the arena
C12_Witness ==
    /\ pc = "clean"
    /\ cur.conc
    /\ \E k \in KeysOf(cur.st) :
          /\ k < cur.i
          /\ Contains(slab[cur.st], k)
          /\ StrongCount(At(slab[cur.st], k).rc) = 0

----------------------------------------------------------------------------
(* C13 *)

\* the step is a whole call of insert; ret' holds its store, the value it
\* was given and the handle it returns
Inserted == pc = "idle" /\ pc' = "done" /\ ret'.op = "insert"

\* insert puts the value at a key that held no object, witnessed by a
\* marker that no handle and no object had, with strong count 1 and the
\* returned handle as its only handle; every object there was before is at
\* its key as it was, and its marker is as it was
C13_Step ==
    Inserted =>
        /\ ~Contains(slab[ret'.st], ret'.ref.index)
        /\ Contains(slab'[ret'.st], ret'.ref.index)
        /\ At(slab'[ret'.st], ret'.ref.index).data = ret'.val
        /\ At(slab'[ret'.st], ret'.ref.index).rc = ret'.ref.rc
        /\ \A h \in Handles : h.rc # ret'.ref.rc
        /\ \A h \in BagToSet(refs') : h.rc = ret'.ref.rc => h = ret'.ref
        /\ CopiesIn(ret'.ref, refs') = 1
        /\ arc'[ret'.ref.rc].strong = 1
        /\ \A st \in Stores : \A k \in KeysOf(st) :
              Contains(slab[st], k) =>
                  /\ At(slab[st], k).rc # ret'.ref.rc
                  /\ Contains(slab'[st], k)
                  /\ At(slab'[st], k) = At(slab[st], k)
                  /\ arc'[At(slab[st], k).rc] = arc[At(slab[st], k).rc]

\* C13: insert(v) places v at an index that was not occupied, returns a
\* handle with that index and a marker shared with no existing handle or
\* slot, leaves the new slot with strong count 1, and leaves the index,
\* value and strong count of every slot there was unchanged.
C13_InsertIsFresh == [][C13_Step]_vars

\* insert has returned in a store that already held an object no handle
\* keeps alive (its marker's address is still taken by its witness)
C13_Witness ==
    /\ pc = "done" /\ ret.op = "insert"
    /\ \E k \in KeysOf(ret.st) :
          /\ k # ret.ref.index
          /\ Contains(slab[ret.st], k)
          /\ StrongCount(At(slab[ret.st], k).rc) = 0

----------------------------------------------------------------------------
(* C14 *)

\* the comparison of remove, for store st and handle h
PointersEqual(st, h) ==
    Contains(slab[st], h.index) /\ h.rc = At(slab[st], h.index).rc

\* the object at the handle's index of store st is the one made by the
\* insert that minted the handle
SameInsertion(st, h) ==
    Contains(slab[st], h.index) /\ h.st = st /\ At(slab[st], h.index).id = h.id

\* C14: for every un-dropped handle and every store, the pointer comparison
\* of remove passes exactly when the handle comes from the insert that made
\* the object now at that index of that store, although addresses of
\* released markers are used again: the address of a marker is held by its
\* handles (strong count) and by its object's witness (weak count), and a
\* remove that has returned panicked exactly when given a handle of
\* another insertion.
C14_IdentityCheckExact ==
    /\ \A h \in LiveHandles : \A st \in Stores :
          PointersEqual(st, h) <=> SameInsertion(st, h)
    /\ \A h \in LiveHandles : arc[h.rc].strong >= 1
    /\ \A st \in Stores : \A k \in KeysOf(st) :
          Contains(slab[st], k) => arc[At(slab[st], k).rc].weak = 1
    /\ (pc = "done" /\ ret.op = "remove") =>
          (ret.val = "panic" <=> ret.ref.st # ret.st)

\* the comparison of remove has passed, and the object was returned, for a
\* handle whose marker sat at an address that had held an earlier marker
C14_Witness ==
    /\ pc = "done" /\ ret.op = "remove" /\ ret.val \in Values
    /\ arc[ret.ref.rc].uses >= 2

----------------------------------------------------------------------------
(* C15 *)

\* the step is a whole call of get or get_mut; ret' holds its store and its
\* handle
GetCalled == pc = "idle" /\ pc' = "done" /\ ret'.op \in {"get", "get_mut"}

\* the entry at key k of store st is the same object, or the same vacant
\* entry, after the step as before; its value may differ when mayWrite
SameEntry(st, k, mayWrite) ==
    IF Contains(slab[st], k)
    THEN /\ Contains(slab'[st], k)
         /\ At(slab'[st], k).rc = At(slab[st], k).rc
         /\ At(slab'[st], k).id = At(slab[st], k).id
         /\ mayWrite \/ At(slab'[st], k).data = At(slab[st], k).data
    ELSE At(slab'[st], k) = At(slab[st], k)

\* get and get_mut keep the handles and the markers as they are, and every
\* slab with its entries and its free list; get changes no value, get_mut
\* no value but the one at the handle's index of the store called, which on
\* the issuing store is the object of the handle's own insertion
C15_Step ==
    GetCalled =>
        /\ refs' = refs
        /\ arc' = arc
        /\ ret'.ref \in Handles
        /\ ret'.op = "get" => slab' = slab
        /\ \A st \in Stores :
              /\ Len(slab'[st].entries) = Len(slab[st].entries)
              /\ slab'[st].next = slab[st].next
              /\ \A k \in KeysOf(st) :
                    SameEntry(st, k, ret'.op = "get_mut" /\ st = ret'.st /\ k = ret'.ref.index)
        /\ ret'.ref.st = ret'.st =>
              /\ Contains(slab[ret'.st], ret'.ref.index)
              /\ At(slab[ret'.st], ret'.ref.index).id = ret'.ref.id

----------------------------------------------------------------------------
(* C16 *)

\* the step is one of clean's own: a turn of the sweep, or its return
CleanActs == pc = "clean" /\ (pc' = "done" \/ cur'.i # cur.i)

\* a step of clean leaves the handles and every strong count as they are,
\* and every object it keeps at its key with its value and its marker; it
\* touches no other store
C16_Step ==
    CleanActs =>
        /\ refs' = refs
        /\ \A a \in Addrs : arc'[a].strong = arc[a].strong
        /\ \A st \in Stores \ {cur.st} : slab'[st] = slab[st]
        /\ \A k \in KeysOf(cur.st) :
              Contains(slab'[cur.st], k) =>
                  /\ Contains(slab[cur.st], k)
                  /\ At(slab'[cur.st], k) = At(slab[cur.st], k)

\* when clean returns and no clone or drop ran during it, no object of the
\* store is left for a further clean to remove; and a clean that began with
\* no such object has removed nothing
C16_NothingLeft ==
    (pc = "done" /\ ret.op = "clean" /\ ~cur.conc) =>
        /\ ZeroIds(cur.st) = {}
        /\ cur.zero0 = {} => OccupiedIds(cur.st) = cur.occ0

\* C16: clean is idempotent and touches no handle: with no handle dropped
\* in between, a clean right after a clean removes nothing, and clean never
\* changes the strong count, index or value of a slot it keeps.
C16_CleanIdempotent == []C16_NothingLeft /\ [][C16_Step]_vars

\* a clean has returned having found nothing to remove, in a store where a
\* key was freed before and an object is kept
C16_Witness ==
    /\ pc = "done" /\ ret.op = "clean" /\ ~cur.conc
    /\ cur.zero0 = {}
    /\ OccupiedIds(cur.st) # {}
    /\ \E k \in KeysOf(cur.st) : ~Contains(slab[cur.st], k)

====
